---- MODULE Spec2Model ----
(***************************************************************************)
(* Model of scripts/jsonl_to_sqlite.py: the Wiktionary JSONL -> SQLite     *)
(* converter.  main() processes the English file and then the Spanish one; *)
(* process_file() reads a file line by line, filters by language, calls    *)
(* process_entry() and appends rows to three pending batches that          *)
(* flush_batches() writes to the database in one transaction.              *)
(***************************************************************************)
EXTENDS Integers, Sequences, FiniteSets, TLC

\* ------------------------------------------------------------------ bounds
\* lines read from one file
MaxLines == 3
\* translations of one entry handed to process_entry on its own
MaxTrans == 2
\* senses of one entry handed to process_entry on its own
MaxSenses == 2

\* BATCH_SIZE = 10000 in the script; scaled down so that a file of MaxLines
\* lines lies below, on and above a batch boundary.
BATCH_SIZE == 2

\* --------------------------------------------------------------- JSON data
\* JSON null / Python None as a field value
NULL == "<null>"
\* marks a key that the constructors below leave out of the object
Absent == "<absent>"

\* Python truthiness of a scalar field value
Truthy(v) == v # "" /\ v # NULL

\* dict.get(key, default): objects carry the set of keys that are present
Get(obj, key, default) == IF key \in obj.keys THEN obj[key] ELSE default

\* a sense object: {"glosses": gl}
Sense(gl) == [keys |-> {"glosses"}, glosses |-> gl]
\* a sense object without a "glosses" key
SenseNoGlosses == [keys |-> {}, glosses |-> <<>>]

\* a translation object; a field given as Absent is a missing key
Tr(lc, c, w, r) ==
  [keys |-> {k \in {"lang_code", "code", "word", "roman"} :
               (CASE k = "lang_code" -> lc [] k = "code" -> c
                  [] k = "word" -> w [] OTHER -> r) # Absent},
   lang_code |-> lc, code |-> c, word |-> w, roman |-> r]

\* a line that decodes to a JSON object; etymology keys are given as a set
Rec(lc, w, p, ekeys, et, ets, ss, ts) ==
  [kind |-> "record",
   keys |-> ({"senses", "translations"} \cup ekeys)
            \cup (IF lc = Absent THEN {} ELSE {"lang_code"})
            \cup (IF w = Absent THEN {} ELSE {"word"})
            \cup (IF p = Absent THEN {} ELSE {"pos"}),
   lang_code |-> lc, word |-> w, pos |-> p,
   etymology_text |-> et, etymology_texts |-> ets,
   senses |-> ss, translations |-> ts]

BlankLine == [Rec(Absent, Absent, Absent, {}, NULL, <<>>, <<>>, <<>>)
                EXCEPT !.kind = "blank", !.keys = {}]
\* a non-blank line on which json.loads raises JSONDecodeError
InvalidLine == [BlankLine EXCEPT !.kind = "invalid"]

\* The lines a file is made of.
Lines ==
  { BlankLine, InvalidLine,
    \* the end-to-end scenario of the documentation
    Rec("en", "cat", "noun", {}, NULL, <<>>, <<Sense(<<"feline">>)>>,
        <<Tr("es", Absent, "gato", Absent)>>),
    \* three senses, one of them without glosses, one with an empty gloss
    Rec("en", "dog", Absent, {"etymology_texts"}, NULL, <<"from docga">>,
        <<Sense(<<"canine", "fellow">>), Sense(<<>>), Sense(<<"">>)>>,
        <<Tr(Absent, "es", "perro", Absent), Tr("fr", Absent, "chien", Absent),
          Tr("es", Absent, "", Absent), Tr("", "es", "can", "kan")>>),
    \* no headword
    Rec("en", "", "noun", {}, NULL, <<>>, <<Sense(<<"feline">>)>>, <<>>),
    \* no sense with a gloss
    Rec("en", "owl", "noun", {}, NULL, <<>>,
        <<Sense(<<>>), SenseNoGlosses>>, <<Tr("es", Absent, "buho", Absent)>>),
    \* a null gloss, which the senses table (gloss TEXT NOT NULL) refuses
    Rec("en", "eel", "noun", {}, NULL, <<>>, <<Sense(<<NULL>>)>>, <<>>),
    Rec("es", "gato", "noun", {"etymology_text"}, "del latin", <<"x">>,
        <<Sense(<<"felino">>), Sense(<<"persona">>)>>,
        <<Tr("en", "es", "cat", Absent), Tr("es", Absent, "gato", Absent)>>),
    Rec("es", "sol", "noun", {}, NULL, <<>>, <<Sense(<<"estrella">>)>>, <<>>),
    \* a record of a third language, and one without a language code
    Rec("fr", "chat", "noun", {}, NULL, <<>>, <<Sense(<<"felin">>)>>,
        <<Tr("es", Absent, "gato", Absent), Tr("en", Absent, "cat", Absent)>>),
    Rec(Absent, "cat", "noun", {}, NULL, <<>>, <<Sense(<<"feline">>)>>,
        <<Tr("es", Absent, "gato", Absent)>>) }

IsBlank(l) == l.kind = "blank"
JsonDecodes(l) == l.kind = "record"

\* -------------------------------------------------------------- constants
TARGET_TRANSLATIONS(lang) ==
  CASE lang = "en" -> {"es"}
    [] lang = "es" -> {"en"}
    [] OTHER -> {}

\* ---------------------------------------------------------- process_entry
None == [accepted |-> FALSE]

\* etymology - both formats
EtymologyText(entry) ==
  IF "etymology_text" \in entry.keys THEN entry.etymology_text
  ELSE IF "etymology_texts" \in entry.keys /\ entry.etymology_texts # <<>>
       THEN entry.etymology_texts[1]
       ELSE NULL

\* if glosses:
HasGloss(sense) == Get(sense, "glosses", <<>>) # <<>>

RECURSIVE SensesDataAllGlosses(_)
\* every gloss of a sense taken, not only the first
SensesDataAllGlosses(senses) ==
  IF senses = <<>> THEN <<>>
  ELSE Get(Head(senses), "glosses", <<>>) \o SensesDataAllGlosses(Tail(senses))

RECURSIVE SensesData(_)
\* senses_data: the first gloss of every sense that has glosses
SensesData(senses) ==
  IF senses = <<>> THEN <<>>
  ELSE LET rest == SensesData(Tail(senses)) IN
       IF HasGloss(Head(senses))
       THEN <<Head(senses).glosses[1]>> \o rest
       ELSE rest

\* trans.get("lang_code", trans.get("code", "")): no fallback from an empty lang_code
TransLangNoFallback(trans) ==
  IF "lang_code" \in trans.keys THEN trans.lang_code ELSE Get(trans, "code", "")

\* trans.get("lang_code") or trans.get("code", "")
TransLang(trans) ==
  IF Truthy(Get(trans, "lang_code", NULL))
  THEN trans.lang_code
  ELSE Get(trans, "code", "")

\* the two tests a translation passes to be kept
IsRelevant(trans, target_langs) ==
  /\ TransLang(trans) \in target_langs
  /\ Truthy(Get(trans, "word", ""))

RECURSIVE RelevantTranslations(_, _)
RelevantTranslations(translations, target_langs) ==
  IF translations = <<>> THEN <<>>
  ELSE LET t == Head(translations)
           rest == RelevantTranslations(Tail(translations), target_langs) IN
       IF IsRelevant(t, target_langs)
       THEN <<[target_lang |-> TransLang(t),
               target_word |-> t.word,
               roman |-> Get(t, "roman", NULL)]>> \o rest
       ELSE rest

process_entry(entry, lang) ==
  IF ~Truthy(Get(entry, "word", "")) THEN None
  ELSE LET senses_data == SensesData(Get(entry, "senses", <<>>)) IN
       IF senses_data = <<>> THEN None
       ELSE [accepted |-> TRUE,
             word |-> entry.word,
             pos |-> Get(entry, "pos", ""),
             senses_data |-> senses_data,
             etymology_text |-> EtymologyText(entry),
             translations |->
               RelevantTranslations(Get(entry, "translations", <<>>),
                                    TARGET_TRANSLATIONS(lang))]

\* ---------------------------------------------------------- flush_batches
\* the database: the committed rows of the three tables, in insertion order
EmptyDb == [words |-> <<>>, senses |-> <<>>, translations |-> <<>>]

Ids(rows) == {rows[i].id : i \in DOMAIN rows}

\* INTEGER PRIMARY KEY: an id already in the table, or twice in the batch
PrimaryKeyConflict(table, rows) ==
  \/ Ids(table) \cap Ids(rows) # {}
  \/ \E i, j \in DOMAIN rows : i # j /\ rows[i].id = rows[j].id

\* gloss TEXT NOT NULL
NotNullViolation(senses) == \E i \in DOMAIN senses : senses[i].gloss = NULL

\* the points at which the storage engine itself may fail during a flush
FaultPoints == {"none", "words", "senses", "translations", "commit"}

\* every statement committed on its own
CommittedPerStatement(d, tx) == tx

\* the rows that are committed when a flush stops with an exception after
\* the transaction reached tx: nothing was committed, the exception leaves
\* main, and closing the connection rolls the open transaction back
RolledBack(d, tx) == d

\* flush_batches(conn, words, senses, translations): three executemany calls,
\* each only for a non-empty list, in the one implicit transaction that
\* conn.commit() ends.  fault is the point at which the engine fails.
flush_batches(d, words, senses, translations, fault) ==
  IF words # <<>> /\ (fault = "words" \/ PrimaryKeyConflict(d.words, words))
  THEN [ok |-> FALSE, db |-> RolledBack(d, d)]
  ELSE
  LET t1 == [d EXCEPT !.words = @ \o words] IN
  IF senses # <<>> /\ (\/ fault = "senses"
                       \/ PrimaryKeyConflict(d.senses, senses)
                       \/ NotNullViolation(senses))
  THEN [ok |-> FALSE, db |-> RolledBack(d, t1)]
  ELSE
  LET t2 == [t1 EXCEPT !.senses = @ \o senses] IN
  IF translations # <<>> /\ fault = "translations"
  THEN [ok |-> FALSE, db |-> RolledBack(d, t2)]
  ELSE
  LET t3 == [t2 EXCEPT !.translations = @ \o translations] IN
  IF fault = "commit"
  THEN [ok |-> FALSE, db |-> RolledBack(d, t3)]
  ELSE [ok |-> TRUE, db |-> t3]

\* ----------------------------------------------------------- process_file
\* the rows process_file appends for an accepted entry
WordRow(wid, res, lang) == [id |-> wid, word |-> res.word, lang_code |-> lang]

SenseRows(sid, wid, res) ==
  [i \in 1..Len(res.senses_data) |->
     [id |-> sid + (i - 1), word_id |-> wid, pos |-> res.pos,
      gloss |-> res.senses_data[i], etymology_text |-> res.etymology_text]]

\* the id of the last sense of the entry
LastSenseId(sid, res) == sid + Len(res.senses_data) - 1

\* first_sense_id = sense_id, taken before the loop over senses_data
FirstSenseId(sid, res) == sid

TransRows(first_sense_id, res) ==
  [i \in 1..Len(res.translations) |->
     [sense_id |-> first_sense_id,
      target_lang |-> res.translations[i].target_lang,
      target_word |-> res.translations[i].target_word,
      roman |-> res.translations[i].roman]]

\* the language test left out
LangMatchesAny(entry, lang) == TRUE

\* if entry_lang != lang_code: continue
LangMatches(entry, lang) == Get(entry, "lang_code", "") = lang

\* the skipped line counted as a processed entry
OnJSONDecodeErrorCounted(loc) == [loc EXCEPT !.entry_count = @ + 1]

\* the locals of process_file after the except branch (warning, continue)
OnJSONDecodeError(loc) == loc

\* the locals after the rows of an accepted entry are appended and the
\* cursors and the counter are advanced
AppendEntry(loc, res, lang) ==
  [word_id |-> loc.word_id + 1,
   sense_id |-> loc.sense_id + Len(res.senses_data),
   entry_count |-> loc.entry_count + 1,
   words_batch |-> Append(loc.words_batch, WordRow(loc.word_id, res, lang)),
   senses_batch |-> loc.senses_batch \o SenseRows(loc.sense_id, loc.word_id, res),
   trans_batch |-> loc.trans_batch \o TransRows(FirstSenseId(loc.sense_id, res), res)]

\* if entry_count % BATCH_SIZE == 0
BatchFull(count) == count % BATCH_SIZE = 0

\* the final flush made unconditionally
FinalFlushAlways(loc) == TRUE

\* the final flush made only for pending translations
FinalFlushTransOnly(loc) == loc.trans_batch # <<>>

\* if words_batch or senses_batch or trans_batch
FinalFlushNeeded(loc) ==
  loc.words_batch # <<>> \/ loc.senses_batch # <<>> \/ loc.trans_batch # <<>>

\* each file numbered from 1 again
StartCursorPerFile(cursor) == 1

\* word_id, sense_id = 1, 1 in main; then whatever process_file returned
StartCursor(cursor) == cursor

\* ------------------------------------------------------------------ state
VARIABLES
  pc,             \* main: "en", "es" (the file it is at), "post", "done",
                  \* "failed" (an exception left main), or "extract"/"extracted"
  args,           \* main: the languages whose file was given (--en, --es)
  main_word_id,   \* main: word_id
  main_sense_id,  \* main: sense_id
  total_entries,  \* main: total_entries
  inFile,         \* TRUE while process_file runs
  lang_code,      \* process_file: lang_code
  line_num,       \* process_file: line_num
  line,           \* process_file: the line read last (entry, once decoded)
  result,         \* process_file: result
  word_id,        \* process_file: word_id
  sense_id,       \* process_file: sense_id
  entry_count,    \* process_file: entry_count
  words_batch,    \* process_file: words_batch
  senses_batch,   \* process_file: senses_batch
  trans_batch,    \* process_file: trans_batch
  db,             \* the committed rows of the database
  called_process_entry, \* history: process_entry was called for the last line
  flush_calls,    \* history: calls of flush_batches by this process_file
  flush_status,   \* history: "none", or how the flush of the last step ended
  assigned,       \* history: <<file, "word" | "sense", id>> of every id used
  carried,        \* history: <<word_id, translation object>> of accepted entries
  appended        \* history: every row appended to a batch, per table

vars == <<pc, args, main_word_id, main_sense_id, total_entries, inFile,
          lang_code, line_num, line, result, word_id, sense_id, entry_count,
          words_batch, senses_batch, trans_batch, db, called_process_entry,
          flush_calls, flush_status, assigned, carried, appended>>

mainVars == <<args, main_word_id, main_sense_id, total_entries>>
histVars == <<assigned, carried, appended>>

\* the locals of process_file that an iteration of its loop may change
Locals ==
  [word_id |-> word_id, sense_id |-> sense_id, entry_count |-> entry_count,
   words_batch |-> words_batch, senses_batch |-> senses_batch,
   trans_batch |-> trans_batch]

SetLocals(loc) ==
  /\ word_id' = loc.word_id
  /\ sense_id' = loc.sense_id
  /\ entry_count' = loc.entry_count
  /\ words_batch' = loc.words_batch
  /\ senses_batch' = loc.senses_batch
  /\ trans_batch' = loc.trans_batch

\* words_batch = []; senses_batch = []; trans_batch = []
ClearBatches(loc) ==
  [loc EXCEPT !.words_batch = <<>>, !.senses_batch = <<>>, !.trans_batch = <<>>]

\* the rows that after has and before had not
NewRows(before, after) == SubSeq(after, Len(before) + 1, Len(after))

\* main after create_schema: fresh database, cursors at 1
Init ==
  /\ pc = "en"
  /\ args \in {{"en"}, {"es"}, {"en", "es"}}
  /\ main_word_id = 1
  /\ main_sense_id = 1
  /\ total_entries = 0
  /\ inFile = FALSE
  /\ lang_code = "en"
  /\ line_num = 0
  /\ line = BlankLine
  /\ result = None
  /\ word_id = 1
  /\ sense_id = 1
  /\ entry_count = 0
  /\ words_batch = <<>>
  /\ senses_batch = <<>>
  /\ trans_batch = <<>>
  /\ db = EmptyDb
  /\ called_process_entry = FALSE
  /\ flush_calls = 0
  /\ flush_status = "none"
  /\ assigned = {}
  /\ carried = {}
  /\ appended = EmptyDb

\* main's position after the file at position p
NextFile(p) == IF p = "en" THEN "es" ELSE "post"

\* main calls process_file for the file it is at: the locals are initialised
ProcessFileStart ==
  /\ pc \in {"en", "es"} /\ ~inFile /\ pc \in args
  /\ inFile' = TRUE
  /\ lang_code' = pc
  /\ word_id' = StartCursor(main_word_id)
  /\ sense_id' = StartCursor(main_sense_id)
  /\ entry_count' = 0
  /\ words_batch' = <<>>
  /\ senses_batch' = <<>>
  /\ trans_batch' = <<>>
  /\ line_num' = 0
  /\ flush_calls' = 0
  /\ flush_status' = "none"
  /\ called_process_entry' = FALSE
  /\ UNCHANGED <<pc, mainVars, line, result, db, histVars>>

\* main: the file of this language was not given
SkipFile ==
  /\ pc \in {"en", "es"} /\ ~inFile /\ pc \notin args
  /\ pc' = NextFile(pc)
  /\ UNCHANGED <<mainVars, inFile, lang_code, line_num, line, result, word_id,
                 sense_id, entry_count, words_batch, senses_batch, trans_batch,
                 db, called_process_entry, flush_calls, flush_status, histVars>>

\* one iteration of the loop of process_file over the line l; fault is the
\* point at which the storage engine fails should this iteration flush
ReadLine(l, fault) ==
  /\ pc \in {"en", "es"} /\ inFile /\ line_num < MaxLines
  /\ line_num' = line_num + 1
  /\ line' = l
  /\ UNCHANGED <<mainVars, inFile, lang_code>>
  /\ IF IsBlank(l)
     THEN /\ UNCHANGED <<pc, result, word_id, sense_id, entry_count,
                         words_batch, senses_batch, trans_batch, db,
                         flush_calls, histVars>>
          /\ called_process_entry' = FALSE
          /\ flush_status' = "none"
          /\ fault = "none"
     ELSE IF ~JsonDecodes(l)
     THEN /\ SetLocals(OnJSONDecodeError(Locals))
          /\ UNCHANGED <<pc, result, db, flush_calls, histVars>>
          /\ called_process_entry' = FALSE
          /\ flush_status' = "none"
          /\ fault = "none"
     ELSE IF ~LangMatches(l, lang_code)
     THEN /\ UNCHANGED <<pc, result, word_id, sense_id, entry_count,
                         words_batch, senses_batch, trans_batch, db,
                         flush_calls, histVars>>
          /\ called_process_entry' = FALSE
          /\ flush_status' = "none"
          /\ fault = "none"
     ELSE
     LET res == process_entry(l, lang_code) IN
     /\ called_process_entry' = TRUE
     /\ result' = res
     /\ IF res = None
        THEN /\ UNCHANGED <<pc, word_id, sense_id, entry_count, words_batch,
                            senses_batch, trans_batch, db, flush_calls,
                            histVars>>
             /\ flush_status' = "none"
             /\ fault = "none"
        ELSE
        LET loc == AppendEntry(Locals, res, lang_code)
            fl == flush_batches(db, loc.words_batch, loc.senses_batch,
                                loc.trans_batch, fault)
            new_words == NewRows(words_batch, loc.words_batch)
            new_senses == NewRows(senses_batch, loc.senses_batch)
            new_trans == NewRows(trans_batch, loc.trans_batch)
        IN
        /\ assigned' = assigned
             \cup {<<lang_code, "word", id>> : id \in Ids(new_words)}
             \cup {<<lang_code, "sense", id>> : id \in Ids(new_senses)}
        /\ carried' = carried
             \cup {<<word_id, l.translations[i]>> : i \in DOMAIN l.translations}
        /\ appended' = [words |-> appended.words \o new_words,
                        senses |-> appended.senses \o new_senses,
                        translations |-> appended.translations \o new_trans]
        /\ IF BatchFull(loc.entry_count)
           THEN /\ flush_calls' = flush_calls + 1
                /\ db' = fl.db
                /\ IF fl.ok
                   THEN /\ SetLocals(ClearBatches(loc))
                        /\ flush_status' = "ok"
                        /\ pc' = pc
                   ELSE /\ SetLocals(loc)
                        /\ flush_status' = "failed"
                        /\ pc' = "failed"
           ELSE /\ SetLocals(loc)
                /\ fault = "none"
                /\ flush_status' = "none"
                /\ UNCHANGED <<pc, db, flush_calls>>

\* the end of the file: the final flush, and the return to main, which takes
\* over the cursors and adds the count
EndOfFile(fault) ==
  /\ pc \in {"en", "es"} /\ inFile
  /\ UNCHANGED <<args, lang_code, line_num, line, result, word_id, sense_id,
                 entry_count, words_batch, senses_batch, trans_batch,
                 called_process_entry, histVars>>
  /\ IF FinalFlushNeeded(Locals)
     THEN LET fl == flush_batches(db, words_batch, senses_batch, trans_batch,
                                  fault) IN
          /\ flush_calls' = flush_calls + 1
          /\ db' = fl.db
          /\ IF fl.ok
             THEN /\ flush_status' = "ok"
                  /\ inFile' = FALSE
                  /\ pc' = NextFile(pc)
                  /\ main_word_id' = word_id
                  /\ main_sense_id' = sense_id
                  /\ total_entries' = total_entries + entry_count
             ELSE /\ flush_status' = "failed"
                  /\ pc' = "failed"
                  /\ UNCHANGED <<inFile, main_word_id, main_sense_id,
                                 total_entries>>
     ELSE /\ fault = "none"
          /\ flush_status' = "none"
          /\ inFile' = FALSE
          /\ pc' = NextFile(pc)
          /\ main_word_id' = word_id
          /\ main_sense_id' = sense_id
          /\ total_entries' = total_entries + entry_count
          /\ UNCHANGED <<db, flush_calls>>

\* main after both files: PRAGMA optimize, VACUUM, close
PostLoad ==
  /\ pc = "post"
  /\ pc' = "done"
  /\ UNCHANGED <<mainVars, inFile, lang_code, line_num, line, result, word_id,
                 sense_id, entry_count, words_batch, senses_batch, trans_batch,
                 db, called_process_entry, flush_calls, flush_status, histVars>>

Next ==
  \/ ProcessFileStart
  \/ SkipFile
  \/ \E l \in Lines, fault \in FaultPoints : ReadLine(l, fault)
  \/ \E fault \in FaultPoints : EndOfFile(fault)
  \/ PostLoad

Spec == Init /\ [][Next]_vars

\* ------------------------------------------ process_entry on its own
SeqsUpTo(S, n) == UNION {[1..k -> S] : k \in 0..n}

\* translation objects: each way of giving, or not giving, the language code
\* under either name, and some without a target text
TransObjects ==
  {Tr(lc, c, "gato", Absent) : lc \in {Absent, "", "es", "en"},
                               c \in {Absent, "es", "en"}}
    \cup {Tr("es", Absent, "", Absent), Tr("en", "es", Absent, Absent)}

SenseObjects == {Sense(<<>>), Sense(<<"feline", "pet">>)}

\* the entries process_entry is applied to
Entries ==
  {Rec(lc, w, "noun", {}, NULL, <<>>, ss, ts) :
     lc \in {"en"}, w \in {"", "cat"},
     ss \in SeqsUpTo(SenseObjects, MaxSenses),
     ts \in SeqsUpTo(TransObjects, MaxTrans)}

\* an entry and the language it is to be processed as
EntryInit ==
  /\ pc = "extract"
  /\ line \in Entries
  /\ lang_code \in {"en", "es"}
  /\ result = None
  /\ called_process_entry = FALSE
  /\ args = {}
  /\ main_word_id = 1
  /\ main_sense_id = 1
  /\ total_entries = 0
  /\ inFile = FALSE
  /\ line_num = 0
  /\ word_id = 1
  /\ sense_id = 1
  /\ entry_count = 0
  /\ words_batch = <<>>
  /\ senses_batch = <<>>
  /\ trans_batch = <<>>
  /\ db = EmptyDb
  /\ flush_calls = 0
  /\ flush_status = "none"
  /\ assigned = {}
  /\ carried = {}
  /\ appended = EmptyDb

\* result = process_entry(entry, lang_code)
Extract ==
  /\ pc = "extract"
  /\ pc' = "extracted"
  /\ result' = process_entry(line, lang_code)
  /\ called_process_entry' = TRUE
  /\ UNCHANGED <<mainVars, inFile, lang_code, line_num, line, word_id,
                 sense_id, entry_count, words_batch, senses_batch, trans_batch,
                 db, flush_calls, flush_status, histVars>>

EntryNext == Extract

EntrySpec == EntryInit /\ [][EntryNext]_vars

TypeOK ==
  /\ pc \in {"en", "es", "post", "done", "failed", "extract", "extracted"}
  /\ inFile \in BOOLEAN
  /\ line_num \in 0..MaxLines
  /\ word_id \in Nat /\ sense_id \in Nat /\ entry_count \in Nat
  /\ flush_status \in {"none", "ok", "failed"}

\* ----------------------------------------------------------------- claims
\* C1: every entry id and every definition id assigned while the second file
\* (es) is processed is greater than every id of the same kind assigned while
\* the first file (en) was processed.
C1_IdentifierMonotonicity ==
  \A a \in assigned : \A b \in assigned :
    (a[1] = "en" /\ b[1] = "es" /\ a[2] = b[2]) => b[3] > a[3]

\* both files assigned entry ids and definition ids, the first one several
C1_Witness ==
  /\ pc = "done"
  /\ \E a \in assigned : \E b \in assigned :
       a[1] = "en" /\ b[1] = "es" /\ a[2] = "word" /\ b[2] = "word" /\ a[3] > 1
  /\ \E a \in assigned : \E b \in assigned :
       a[1] = "en" /\ b[1] = "es" /\ a[2] = "sense" /\ b[2] = "sense" /\ a[3] > 2

C3_CrossLanguageInert ==
  [][ ( /\ line_num' = line_num + 1
        /\ line'.kind = "record"
        /\ ("lang_code" \notin line'.keys \/ line'.lang_code # lang_code) )
      => ( /\ ~called_process_entry'
           /\ UNCHANGED <<words_batch, senses_batch, trans_batch, word_id,
                          sense_id, entry_count, appended>> ) ]_vars

\* a record of the other language read while rows are pending
C3_Witness ==
  /\ inFile /\ lang_code = "en" /\ words_batch # <<>>
  /\ line.kind = "record" /\ "lang_code" \in line.keys /\ line.lang_code = "es"
  /\ "word" \in line.keys /\ line.word = "gato"

\* C4: an accepted record yields as many definition rows, and advances the
\* definition cursor by as much, as it has senses with at least one gloss; a
\* record without such a sense is rejected and yields no row.
C4_DefinitionCount ==
  [][ (line_num' = line_num + 1 /\ called_process_entry')
      => LET n == Cardinality({i \in DOMAIN line'.senses :
                                 /\ "glosses" \in line'.senses[i].keys
                                 /\ Len(line'.senses[i].glosses) >= 1})
         IN /\ (n = 0) => /\ result' = None
                          /\ UNCHANGED <<appended, word_id, sense_id,
                                         entry_count>>
            /\ (result' # None) =>
                 /\ n > 0
                 /\ sense_id' - sense_id = n
                 /\ Len(appended'.senses) - Len(appended.senses) = n ]_vars

\* the record with three senses, two of them with glosses, was accepted
C4_Witness ==
  /\ called_process_entry /\ result # None
  /\ line.kind = "record" /\ Len(line.senses) = 3
  /\ Len(appended.senses) >= 2

\* C5: of the translations of an accepted record, exactly those give a
\* cross-reference whose language code (lang_code, or code when lang_code is
\* missing or empty) is the one the source language allows (es for en, en for
\* es) and whose target text is not empty.
C5_CrossReferenceFilter ==
  (pc = "extracted" /\ result # None) =>
    LET ts == line.translations
        rows == result.translations
        allowed == IF lang_code = "en" THEN "es" ELSE "en"
        code(t) == IF "lang_code" \in t.keys /\ t.lang_code # ""
                   THEN t.lang_code
                   ELSE IF "code" \in t.keys THEN t.code ELSE ""
        kept(t) == code(t) = allowed /\ "word" \in t.keys /\ t.word # ""
    IN /\ Len(rows) = Cardinality({i \in DOMAIN ts : kept(ts[i])})
       /\ \A i \in DOMAIN ts :
            kept(ts[i]) <=> \E j \in DOMAIN rows :
                              /\ rows[j].target_lang = code(ts[i])
                              /\ rows[j].target_word = ts[i].word

\* an accepted es record with a translation kept through the code field and
\* one dropped
C5_Witness ==
  /\ pc = "extracted" /\ result # None /\ lang_code = "es"
  /\ Len(line.translations) = 2 /\ Len(result.translations) = 1
  /\ \E i \in DOMAIN line.translations :
       /\ line.translations[i].lang_code = ""
       /\ line.translations[i].code = "en"
       /\ line.translations[i].word = "gato"

\* C6: a line that does not decode changes no batch, cursor or counter and
\* does not end the run: process_file goes on with the next line.
C6_MalformedLineSkipped ==
  [][ (line_num' = line_num + 1 /\ line'.kind = "invalid")
      => ( /\ pc' = pc /\ inFile'
           /\ UNCHANGED <<words_batch, senses_batch, trans_batch, word_id,
                          sense_id, entry_count, db, flush_calls,
                          appended>> ) ]_vars

\* a malformed line read while rows are pending
C6_Witness ==
  /\ inFile /\ pc = "es" /\ line.kind = "invalid"
  /\ words_batch # <<>> /\ line_num < MaxLines

\* C7: a flush that fails commits none of its rows and leaves the rows of
\* earlier flushes as they are, and the failure ends the run.
C7_FlushAtomic ==
  [][ /\ (flush_status' = "failed") => (pc' = "failed" /\ db' = db)
      /\ (pc' = "failed") => (db' = db)
      /\ (pc = "failed") => FALSE ]_vars

\* a flush failed with rows pending after an earlier flush committed rows
C7_Witness ==
  /\ pc = "failed" /\ flush_status = "failed"
  /\ db.words # <<>> /\ words_batch # <<>> /\ senses_batch # <<>>

\* C8 (as claimed): every definition row has a gloss text that is not empty.
C8_GlossNonEmpty ==
  \A i \in DOMAIN appended.senses :
    appended.senses[i].gloss # "" /\ appended.senses[i].gloss # NULL

\* C9: in the committed database every definition row belongs to a committed
\* entry row, and every cross-reference row points to a committed definition
\* row that is the first one of the entry whose record had the translation.
C9_ReferentialIntegrity ==
  /\ \A i \in DOMAIN db.senses : db.senses[i].word_id \in Ids(db.words)
  /\ \A k \in DOMAIN db.translations :
       \E i \in DOMAIN db.senses :
         /\ db.senses[i].id = db.translations[k].sense_id
         /\ \A j \in DOMAIN db.senses :
              db.senses[j].word_id = db.senses[i].word_id
                => db.senses[j].id >= db.senses[i].id
         /\ \E c \in carried :
              /\ c[1] = db.senses[i].word_id
              /\ "word" \in c[2].keys
              /\ c[2].word = db.translations[k].target_word

\* the cross-reference of an entry with two definitions, after other entries
C9_Witness ==
  /\ pc = "done"
  /\ \E k \in DOMAIN db.translations :
       /\ db.translations[k].target_word = "cat"
       /\ db.translations[k].sense_id > 1
       /\ \E i \in DOMAIN db.senses :
            db.senses[i].id = db.translations[k].sense_id + 1

\* C10: when process_file has returned, the database holds every row that
\* was appended, once and in order, and no pending row is missing from it.
C10_AllRowsCommittedOnce ==
  (~inFile /\ pc \in {"en", "es", "post", "done"}) =>
     /\ db = appended
     /\ \A i \in DOMAIN words_batch :
          \E j \in DOMAIN db.words : db.words[j] = words_batch[i]
     /\ \A i \in DOMAIN senses_batch :
          \E j \in DOMAIN db.senses : db.senses[j] = senses_batch[i]
     /\ \A i \in DOMAIN trans_batch :
          \E j \in DOMAIN db.translations : db.translations[j] = trans_batch[i]

\* a file of one entry more than a batch returned, after a file with entries
C10_Witness ==
  /\ ~inFile /\ pc = "done" /\ entry_count = BATCH_SIZE + 1
  /\ Len(db.words) > entry_count /\ flush_calls = 2
  /\ db.translations # <<>>

====
